---- MODULE Spec2Model ----
(***************************************************************************)
(* State-machine model of the ADAM-6000 series driver (adam6xxx).          *)
(*                                                                         *)
(* The driver is a synchronous, single-threaded Python class.  Every       *)
(* public method is modelled as a call action (the caller picks the        *)
(* arguments) followed by one action per transport round trip or sleep,    *)
(* in program order.  The Modbus client (pymodbus) is external: each of    *)
(* its calls either raises ConnectionException or returns, a coil write    *)
(* is either stored by the device or not, and register reads return any    *)
(* of a small set of register contents.  Python exceptions propagate to    *)
(* the caller and end the operation.                                       *)
(***************************************************************************)
EXTENDS Integers, Sequences, FiniteSets, TLC

\* ------------------------------------------------------------------ bounds
\* Valid logical indices 0..MaxIndex are exercised (plus wrapped and
\* out-of-range ones, see Indices).
MaxIndex == 1
\* Pulse durations -1..MaxDuration (in ticks) are exercised.
MaxDuration == 1

\* --------------------------------------------------------- program constants
RISING == 1
FALLING == 2
Edges == {RISING, FALLING}

module_name == 210

Models == {"ADAM6052", "ADAM6060"}

digital_inputs(m) ==
    IF m = "ADAM6052" THEN <<0, 1, 2, 3, 4, 5, 6, 7>>
    ELSE <<0, 1, 2, 3, 4, 5>>

digital_outputs(m) ==
    IF m = "ADAM6052" THEN <<16, 17, 18, 19, 20, 21, 22, 23>>
    ELSE <<16, 17, 18, 19, 20, 21>>

counter_registers(m) ==
    IF m = "ADAM6052" THEN <<0, 2, 4, 6, 8, 10, 12, 14>>
    ELSE <<0, 2, 4, 6, 8, 10>>

\* Mutant: the ADAM-6052 table carries the ADAM-6060 offsets, which run into
\* its counter registers.
pulse_low_widths_shifted(m) ==
    IF m = "ADAM6052" THEN <<12, 14, 16, 18, 20, 22, 24, 26>>
    ELSE <<12, 14, 16, 18, 20, 22>>

pulse_low_widths(m) ==
    IF m = "ADAM6052" THEN <<16, 18, 20, 22, 24, 26, 28, 30>>
    ELSE <<12, 14, 16, 18, 20, 22>>

pulse_high_widths(m) ==
    IF m = "ADAM6052" THEN <<32, 34, 36, 38, 40, 42, 44, 46>>
    ELSE <<24, 26, 28, 30, 32, 34>>

absolute_pulse_count(m) ==
    IF m = "ADAM6052" THEN <<48, 50, 52, 54, 56, 58, 60, 62>>
    ELSE <<36, 38, 40, 42, 44, 46>>

incremental_pulse_count(m) ==
    IF m = "ADAM6052" THEN <<64, 66, 68, 70, 72, 74, 76, 78>>
    ELSE <<48, 50, 52, 54, 56, 58>>

\* ------------------------------------------------------------ Python helpers
\* table[index] with Python list semantics: -len <= index < len is accepted
\* and a negative index counts from the end; anything else raises IndexError.
InRange(table, index) == index >= -Len(table) /\ index < Len(table)

\* Mutant: a non-negative index is taken one entry too far.
SubscriptOffByOne(table, index) ==
    IF index >= 0 THEN table[index + 2] ELSE table[Len(table) + index + 1]

Subscript(table, index) ==
    IF index >= 0 THEN table[index + 1] ELSE table[Len(table) + index + 1]

\* Python integers are unbounded.  A value that may exceed the checker's
\* integers is kept as a Python long: its base-256 digits, least significant
\* first, without leading zeros (zero is the empty sequence).
Base == 16 * 16

RECURSIVE Long(_)
Long(n) == IF n = 0 THEN <<>> ELSE <<n % Base>> \o Long(n \div Base)

RECURSIVE Strip(_)
Strip(a) ==
    IF a = <<>> THEN a
    ELSE IF a[Len(a)] = 0 THEN Strip(SubSeq(a, 1, Len(a) - 1))
    ELSE a

RECURSIVE AddCarry(_, _, _)
AddCarry(a, b, carry) ==
    IF a = <<>> /\ b = <<>> THEN (IF carry = 0 THEN <<>> ELSE <<carry>>)
    ELSE LET x == IF a = <<>> THEN 0 ELSE Head(a)
             y == IF b = <<>> THEN 0 ELSE Head(b)
             sum == x + y + carry
         IN <<sum % Base>> \o AddCarry(IF a = <<>> THEN a ELSE Tail(a),
                                       IF b = <<>> THEN b ELSE Tail(b),
                                       sum \div Base)

\* a + b on Python longs
LongAdd(a, b) == Strip(AddCarry(a, b, 0))

RECURSIVE MulDigit(_, _, _)
MulDigit(a, d, carry) ==
    IF a = <<>> THEN (IF carry = 0 THEN <<>> ELSE <<carry>>)
    ELSE LET prod == Head(a) * d + carry
         IN <<prod % Base>> \o MulDigit(Tail(a), d, prod \div Base)

\* a * b on Python longs
RECURSIVE LongMul(_, _)
LongMul(a, b) ==
    IF b = <<>> THEN <<>>
    ELSE LongAdd(Strip(MulDigit(a, Head(b), 0)),
                 IF LongMul(a, Tail(b)) = <<>> THEN <<>>
                 ELSE <<0>> \o LongMul(a, Tail(b)))

HexDigits == <<"0", "1", "2", "3", "4", "5", "6", "7",
               "8", "9", "a", "b", "c", "d", "e", "f">>

\* hex(n)[2:] for n >= 0
RECURSIVE Hex(_)
Hex(n) ==
    IF n < 16 THEN HexDigits[n + 1]
    ELSE Hex(n \div 16) \o HexDigits[(n % 16) + 1]

\* ---------------------------------------------------------- caller's inputs
\* Indices a caller passes: the valid 0..MaxIndex, -1 (wraps to the last
\* entry), and the two nearest indices outside -len..len-1.
Indices(m) ==
    (0..MaxIndex) \cup {-1, Len(digital_outputs(m)), -Len(digital_outputs(m)) - 1}

Durations == -1..MaxDuration

\* (low, high) register contents a two-register read may return.
RegisterPairs ==
    {<<0, 0>>, <<5, 2>>, <<65535, 65535>>, <<65, 66>>, <<0, 90>>}

\* Register contents a one-register read may return.
RegisterValues == {0, 123, 65535}

\* Coil addresses of the model's digital outputs.
CoilAddresses(m) == {digital_outputs(m)[k] : k \in 1..Len(digital_outputs(m))}

\* ------------------------------------------------------------------- state
VARIABLES
    model,      \* which module class was instantiated
    connected,  \* ADAM6XXX.connected
    name,       \* ADAM6XXX.name
    coils,      \* device: coil address -> stored state
    pc,         \* position of the driver in the running operation
    op,         \* the running (or last finished) public call and its arguments
    step,       \* pulse_digital_output: which set_digital_output call (1..3)
    trace,      \* transport calls and sleeps issued by the operation, in order
    result,     \* how the operation ended and what it returned
    faithful,   \* every transport call of the operation returned, every write was stored
    prev        \* get_digital_output: the set_digital_output call that finished just before it

vars == <<model, connected, name, coils, pc, op, step, trace, result, faithful, prev>>

NoValue == [kind |-> "none"]
Pending == [status |-> "pending", value |-> NoValue]
NoPrev == [set |-> FALSE, index |-> 0, state |-> FALSE, ok |-> FALSE]

NoOp == [name |-> "none", index |-> 0, state |-> FALSE, verify |-> FALSE,
         polarity |-> RISING, duration |-> 0]

Init ==
    /\ model \in Models
    /\ connected = FALSE
    /\ name = ""
    /\ coils = [a \in CoilAddresses(model) |-> FALSE]
    /\ pc = "idle"
    /\ op = NoOp
    /\ step = 0
    /\ trace = <<>>
    /\ result = Pending
    /\ faithful = TRUE
    /\ prev = NoPrev

\* ------------------------------------------------------- call and return
PyNone == [kind |-> "None"]
PyBool(b) == [kind |-> "bool", v |-> b]
\* an int, held as a Python long
PyInt(n) == [kind |-> "int", v |-> n]
PyStr(s) == [kind |-> "str", v |-> s]
\* A pymodbus response object (what read_discrete_inputs returns).
Response(bits) == [kind |-> "response", bits |-> bits]

\* The operation returns `value` to the caller.
Return(value) ==
    /\ pc' = "idle"
    /\ result' = [status |-> "ok", value |-> value]

\* The exception `exc` propagates out of the operation to the caller.
Raise(exc) ==
    /\ pc' = "idle"
    /\ result' = [status |-> exc, value |-> NoValue]

\* Mutant: the failed request is issued again.
RetryRequest == UNCHANGED <<pc, result>>

\* A transport call raised pymodbus.exceptions.ConnectionException; no method
\* of the driver catches it, so it leaves the operation.
ConnectionException == Raise("ConnectionException")

\* What a get_digital_output call remembers of the operation that finished
\* just before it: a set_digital_output that returned, every write stored.
Finished(o) ==
    IF /\ o.name = "get_digital_output"
       /\ op.name = "set_digital_output" /\ result.status = "ok" /\ faithful
    THEN [set |-> TRUE, index |-> op.index, state |-> op.state, ok |-> TRUE]
    ELSE NoPrev

\* A caller invokes public method `o.name`; the driver is idle (operations are
\* serialized by the caller) and control enters the method at `entry`.
Call(o, entry) ==
    /\ pc = "idle"
    /\ op' = o
    /\ pc' = entry
    /\ trace' = <<>>
    /\ result' = Pending
    /\ faithful' = TRUE
    /\ prev' = Finished(o)
    /\ UNCHANGED <<model, connected, name, coils>>

\* ------------------------------------------------------------ digital I/O
\* Mutant: the RISING branch forces the FALLING sequence.
PulseStatesSwapped(polarity) ==
    IF polarity = RISING THEN <<TRUE, FALSE, TRUE>>
    ELSE IF polarity = FALLING THEN <<TRUE, FALSE, TRUE>>
    ELSE <<>>

\* The three states pulse_digital_output forces, in order.
PulseStates(polarity) ==
    IF polarity = RISING THEN <<FALSE, TRUE, FALSE>>
    ELSE IF polarity = FALLING THEN <<TRUE, FALSE, TRUE>>
    ELSE <<>>

\* The `state` argument of the set_digital_output call in progress.
State ==
    IF op.name = "pulse_digital_output" THEN PulseStates(op.polarity)[step]
    ELSE op.state

\* Mutant: the coil is written with the opposite state.
CoilValueInverted(state) == ~state

\* value=state in the write_coil request
CoilValue(state) == state

\* Mutant: the assertion is not evaluated.
VerifiedAlways(coil_state, state) == TRUE

\* Mutant: the read-back is compared with HIGH instead of with `state`.
VerifiedHigh(coil_state, state) == coil_state = TRUE

\* assert (coil_state == state)
Verified(coil_state, state) == coil_state = state

\* .bits[0] of a read_coils response
FirstBit(bits) == bits[1]

\* Mutant: the pulse returns after its second step, without the hold and the
\* final write.
AfterSetNoRelease ==
    IF op.name = "set_digital_output" THEN Return(PyNone) /\ UNCHANGED step
    ELSE IF step = 1 THEN pc' = "write_coil" /\ step' = 2 /\ UNCHANGED result
    ELSE Return(PyNone) /\ UNCHANGED step

\* set_digital_output has returned normally: control goes back to its caller.
AfterSet ==
    IF op.name = "set_digital_output" THEN Return(PyNone) /\ UNCHANGED step
    ELSE IF step = 1 THEN pc' = "write_coil" /\ step' = 2 /\ UNCHANGED result
    ELSE IF step = 2 THEN pc' = "sleep" /\ UNCHANGED <<step, result>>
    ELSE Return(PyNone) /\ UNCHANGED step

CallSetDigitalOutput ==
    \E index \in Indices(model), state \in BOOLEAN, verify \in BOOLEAN :
        /\ Call([NoOp EXCEPT !.name = "set_digital_output", !.index = index,
                             !.state = state, !.verify = verify], "write_coil")
        /\ step' = 0

CallPulseDigitalOutput ==
    \E index \in Indices(model), polarity \in Edges, verify \in BOOLEAN,
       duration \in Durations :
        /\ Call([NoOp EXCEPT !.name = "pulse_digital_output", !.index = index,
                             !.polarity = polarity, !.verify = verify,
                             !.duration = duration], "write_coil")
        /\ step' = 1

\* Mutant: the read-back is made whatever `verify` says.
ReadBackAlways(verify) == TRUE

\* if verify: (line 77)
ReadBack(verify) == verify

\* set_digital_output, lines 75-76: look the address up and write the coil.
WriteCoil ==
    /\ pc = "write_coil"
    /\ LET address == Subscript(digital_outputs(model), op.index) IN
        IF ~InRange(digital_outputs(model), op.index)
        THEN /\ Raise("IndexError")
             /\ UNCHANGED <<coils, trace, faithful, step>>
        ELSE \E outcome \in {"stored", "dropped", "raise"} :
            /\ trace' = Append(trace, [call |-> "write_coil", address |-> address,
                                       value |-> CoilValue(State),
                                       error |-> outcome = "raise"])
            /\ coils' = IF outcome = "stored"
                        THEN [coils EXCEPT ![address] = CoilValue(State)]
                        ELSE coils
            /\ faithful' = (faithful /\ outcome = "stored")
            /\ IF outcome = "raise"
               THEN ConnectionException /\ UNCHANGED step
               ELSE IF ReadBack(op.verify)
               THEN pc' = "read_coils" /\ UNCHANGED <<result, step>>
               ELSE AfterSet
    /\ UNCHANGED <<model, connected, name, op, prev>>

CallGetDigitalOutput ==
    \E index \in Indices(model) :
        /\ Call([NoOp EXCEPT !.name = "get_digital_output", !.index = index],
                "read_coils")
        /\ step' = 0

\* get_digital_output, line 94, called by the user or by set_digital_output
\* (lines 78-79, which then assert the read-back).
ReadCoils ==
    /\ pc = "read_coils"
    /\ LET address == Subscript(digital_outputs(model), op.index) IN
        IF ~InRange(digital_outputs(model), op.index)
        THEN /\ Raise("IndexError")
             /\ UNCHANGED <<trace, faithful, step>>
        ELSE \E outcome \in {"bits", "raise"} :
            /\ trace' = Append(trace, [call |-> "read_coils", address |-> address,
                                       bits |-> IF outcome = "raise" THEN <<>>
                                                ELSE <<coils[address]>>,
                                       error |-> outcome = "raise"])
            /\ faithful' = (faithful /\ outcome = "bits")
            /\ IF outcome = "raise"
               THEN ConnectionException /\ UNCHANGED step
               ELSE LET coil_state == FirstBit(<<coils[address]>>) IN
                    IF op.name = "get_digital_output"
                    THEN Return(PyBool(coil_state)) /\ UNCHANGED step
                    ELSE IF Verified(coil_state, State)
                    THEN AfterSet
                    ELSE Raise("AssertionError") /\ UNCHANGED step
    /\ UNCHANGED <<model, connected, name, coils, op, prev>>

\* Mutant: the hold is left out.
SleepSkipped ==
    /\ pc = "sleep"
    /\ step' = 3
    /\ pc' = "write_coil"
    /\ UNCHANGED <<model, connected, name, coils, op, trace, result, faithful, prev>>

\* pulse_digital_output, lines 128 and 133: time.sleep(duration), which
\* raises ValueError for a negative duration.
Sleep ==
    /\ pc = "sleep"
    /\ IF op.duration < 0
       THEN Raise("ValueError") /\ UNCHANGED <<trace, step>>
       ELSE /\ trace' = Append(trace, [call |-> "sleep", duration |-> op.duration,
                                       error |-> FALSE])
            /\ step' = 3
            /\ pc' = "write_coil"
            /\ UNCHANGED result
    /\ UNCHANGED <<model, connected, name, coils, op, faithful, prev>>

CallGetDigitalInput ==
    \E index \in Indices(model) :
        /\ Call([NoOp EXCEPT !.name = "get_digital_input", !.index = index],
                "read_discrete_inputs")
        /\ step' = 0

\* get_digital_input, line 109: returns what read_discrete_inputs returns,
\* the response object, not one of its bits.
ReadDiscreteInputs ==
    /\ pc = "read_discrete_inputs"
    /\ LET address == Subscript(digital_inputs(model), op.index) IN
        IF ~InRange(digital_inputs(model), op.index)
        THEN /\ Raise("IndexError")
             /\ UNCHANGED <<trace, faithful>>
        ELSE \E outcome \in {"bits", "raise"}, input \in BOOLEAN :
            /\ trace' = Append(trace, [call |-> "read_discrete_inputs",
                                       address |-> address,
                                       error |-> outcome = "raise"])
            /\ faithful' = (faithful /\ outcome = "bits")
            /\ IF outcome = "raise"
               THEN ConnectionException
               ELSE Return(Response(<<input>>))
    /\ UNCHANGED <<model, connected, name, coils, op, step, prev>>

\* ------------------------------------------- connection and identification
CallConnect ==
    /\ Call([NoOp EXCEPT !.name = "connect"], "connect")
    /\ step' = 0

\* connect, line 59: self.connected = self._client.connect(); control then
\* reaches get_module_name (line 60) whatever the client returned.
Connect ==
    /\ pc = "connect"
    /\ \E outcome \in {"True", "False", "raise"} :
        /\ trace' = Append(trace, [call |-> "connect",
                                   returned |-> outcome = "True",
                                   error |-> outcome = "raise"])
        /\ faithful' = (faithful /\ outcome # "raise")
        /\ IF outcome = "raise"
           THEN ConnectionException /\ UNCHANGED connected
           ELSE /\ connected' = (outcome = "True")
                /\ pc' = "read_module_name"
                /\ UNCHANGED result
    /\ UNCHANGED <<model, name, coils, op, step, prev>>

CallGetModuleName ==
    /\ Call([NoOp EXCEPT !.name = "get_module_name"], "read_module_name")
    /\ step' = 0

\* Mutant: the high register's text comes first.
ModuleNameHighFirst(low, high) ==
    (IF high # 0 THEN Hex(high) ELSE "") \o (IF low # 0 THEN Hex(low) ELSE "")

\* lines 148-152: the name built from the two registers
ModuleName(low, high) ==
    (IF low # 0 THEN Hex(low) ELSE "") \o (IF high # 0 THEN Hex(high) ELSE "")

\* Mutant: the name is cleared before the registers are read, so a failed
\* read leaves it empty.
ReadModuleNameClearsFirst ==
    /\ pc = "read_module_name"
    /\ \/ /\ trace' = Append(trace, [call |-> "read_input_registers",
                                     address |-> module_name, count |-> 2,
                                     registers |-> <<>>, error |-> TRUE])
          /\ faithful' = FALSE
          /\ ConnectionException
          /\ name' = ""
       \/ \E registers \in RegisterPairs :
          /\ trace' = Append(trace, [call |-> "read_input_registers",
                                     address |-> module_name, count |-> 2,
                                     registers |-> registers, error |-> FALSE])
          /\ name' = ModuleName(registers[1], registers[2])
          /\ IF op.name = "connect"
             THEN Return(PyBool(connected))
             ELSE Return(PyStr(name'))
          /\ UNCHANGED faithful
    /\ UNCHANGED <<model, connected, coils, op, step, prev>>

\* get_module_name, lines 146-153, called by the user or by connect
\* (lines 60-61, which then return self.connected).
ReadModuleName ==
    /\ pc = "read_module_name"
    /\ \/ /\ trace' = Append(trace, [call |-> "read_input_registers",
                                     address |-> module_name, count |-> 2,
                                     registers |-> <<>>, error |-> TRUE])
          /\ faithful' = FALSE
          /\ ConnectionException
          /\ UNCHANGED name
       \/ \E registers \in RegisterPairs :
          /\ trace' = Append(trace, [call |-> "read_input_registers",
                                     address |-> module_name, count |-> 2,
                                     registers |-> registers, error |-> FALSE])
          /\ name' = ModuleName(registers[1], registers[2])
          /\ IF op.name = "connect"
             THEN Return(PyBool(connected))
             ELSE Return(PyStr(name'))
          /\ UNCHANGED faithful
    /\ UNCHANGED <<model, connected, coils, op, step, prev>>

\* -------------------------------------------------- counters and frequency
\* Mutant: the two registers are combined in the other order.
ComposeSwapped(low, high) == LongAdd(LongMul(Long(low), Long(65536)), Long(high))

\* line 170
Compose(low, high) == LongAdd(LongMul(Long(high), Long(65536)), Long(low))

CallGetCounter ==
    \E index \in Indices(model) :
        /\ Call([NoOp EXCEPT !.name = "get_counter", !.index = index],
                "read_counter")
        /\ step' = 0

\* get_counter, lines 168-170
ReadCounter ==
    /\ pc = "read_counter"
    /\ LET address == Subscript(counter_registers(model), op.index) IN
        IF ~InRange(counter_registers(model), op.index)
        THEN /\ Raise("IndexError")
             /\ UNCHANGED <<trace, faithful>>
        ELSE \/ /\ trace' = Append(trace, [call |-> "read_input_registers",
                                           address |-> address, count |-> 2,
                                           registers |-> <<>>, error |-> TRUE])
                /\ faithful' = FALSE
                /\ ConnectionException
             \/ \E registers \in RegisterPairs :
                /\ trace' = Append(trace, [call |-> "read_input_registers",
                                           address |-> address, count |-> 2,
                                           registers |-> registers,
                                           error |-> FALSE])
                /\ Return(PyInt(Compose(registers[1], registers[2])))
                /\ UNCHANGED faithful
    /\ UNCHANGED <<model, connected, name, coils, op, step, prev>>

CallGetFrequency ==
    \E index \in Indices(model) :
        /\ Call([NoOp EXCEPT !.name = "get_frequency", !.index = index],
                "read_frequency")
        /\ step' = 0

\* get_frequency, lines 185-187: `low` is the list .registers, and dividing
\* a list by 10.0 raises TypeError.
ReadFrequency ==
    /\ pc = "read_frequency"
    /\ LET address == Subscript(counter_registers(model), op.index) IN
        IF ~InRange(counter_registers(model), op.index)
        THEN /\ Raise("IndexError")
             /\ UNCHANGED <<trace, faithful>>
        ELSE \/ /\ trace' = Append(trace, [call |-> "read_input_registers",
                                           address |-> address, count |-> 1,
                                           registers |-> <<>>, error |-> TRUE])
                /\ faithful' = FALSE
                /\ ConnectionException
             \/ \E register \in RegisterValues :
                /\ trace' = Append(trace, [call |-> "read_input_registers",
                                           address |-> address, count |-> 1,
                                           registers |-> <<register>>,
                                           error |-> FALSE])
                /\ Raise("TypeError")
                /\ UNCHANGED faithful
    /\ UNCHANGED <<model, connected, name, coils, op, step, prev>>

Next ==
    \/ CallConnect
    \/ CallGetModuleName
    \/ CallSetDigitalOutput
    \/ CallGetDigitalOutput
    \/ CallGetDigitalInput
    \/ CallPulseDigitalOutput
    \/ CallGetCounter
    \/ CallGetFrequency
    \/ Connect
    \/ ReadModuleName
    \/ WriteCoil
    \/ ReadCoils
    \/ ReadDiscreteInputs
    \/ Sleep
    \/ ReadCounter
    \/ ReadFrequency

Spec == Init /\ [][Next]_vars

\* ================================================================= claims
\* The index is one the specification calls valid: 0 <= index < len(table).
Valid(table, index) == index >= 0 /\ index < Len(table)

WriteCoils(t) == SelectSeq(t, LAMBDA e : e.call = "write_coil")
Sleeps(t) == SelectSeq(t, LAMBDA e : e.call = "sleep")

\* The coil address the operation's index is mapped to.
Coil == digital_outputs(model)[op.index + 1]

Write(address, value) ==
    [call |-> "write_coil", address |-> address, value |-> value, error |-> FALSE]

\* A pulse on a valid output with a positive duration has returned or raised,
\* and the transport answered every request and stored every write.
PulseDone(polarity) ==
    /\ pc = "idle"
    /\ op.name = "pulse_digital_output"
    /\ op.polarity = polarity
    /\ Valid(digital_outputs(model), op.index)
    /\ op.duration > 0
    /\ faithful

\* C1: a RISING pulse on a valid output with duration > 0, against a transport
\* that stores what is written, returns normally after exactly three coil
\* writes to the mapped address, LOW, HIGH, LOW in that order, and leaves the
\* coil LOW.
C1_RisingPulseWritesLowHighLow ==
    PulseDone(RISING) =>
        /\ result.status = "ok"
        /\ WriteCoils(trace) =
               <<Write(Coil, FALSE), Write(Coil, TRUE), Write(Coil, FALSE)>>
        /\ coils[Coil] = FALSE

C1_Witness ==
    /\ PulseDone(RISING)
    /\ op.verify
    /\ op.index = 1
    /\ Len(WriteCoils(trace)) = 3
    /\ coils[Coil] = FALSE

\* C2: a FALLING pulse on a valid output with duration > 0, against a
\* transport that stores what is written, returns normally after exactly three
\* coil writes to the mapped address, HIGH, LOW, HIGH in that order, and
\* leaves the coil HIGH.
C2_FallingPulseWritesHighLowHigh ==
    PulseDone(FALLING) =>
        /\ result.status = "ok"
        /\ WriteCoils(trace) =
               <<Write(Coil, TRUE), Write(Coil, FALSE), Write(Coil, TRUE)>>
        /\ coils[Coil] = TRUE

C2_Witness ==
    /\ PulseDone(FALLING)
    /\ ~op.verify
    /\ Len(WriteCoils(trace)) = 3
    /\ coils[Coil] = TRUE

\* Position j of the trace is a read-back that answered with a value other
\* than the one the write just before it asked for.
Mismatch(j) ==
    /\ j > 1
    /\ trace[j].call = "read_coils"
    /\ ~trace[j].error
    /\ trace[j - 1].call = "write_coil"
    /\ trace[j].bits[1] # trace[j - 1].value

\* C3: in a pulse with verify, a read-back that differs from the value its
\* step wrote ends the pulse with AssertionError (VerificationMismatch) at
\* once: it is the last entry of the trace, so no later write, hold or
\* rollback write follows, and the last coil write is the one of the failed
\* step.
C3_MismatchAbortsPulse ==
    (op.name = "pulse_digital_output" /\ op.verify) =>
        \A j \in 1..Len(trace) :
            Mismatch(j) =>
                /\ j = Len(trace)
                /\ pc = "idle"
                /\ result.status = "AssertionError"
                /\ Len(WriteCoils(trace)) = step
                /\ trace[j - 1].value = PulseStates(op.polarity)[step]
                /\ Len(Sleeps(trace)) = (IF step = 3 THEN 1 ELSE 0)

\* A mismatch at the second step of a verified pulse.
C3_Witness ==
    /\ op.name = "pulse_digital_output"
    /\ op.verify
    /\ pc = "idle"
    /\ step = 2
    /\ Len(trace) = 4
    /\ Mismatch(4)

\* C4: set_digital_output with verify issues one coil write of `state` and,
\* when the write returns, one coil read of the same address and nothing
\* more; it raises AssertionError (VerificationMismatch) exactly when the
\* read-back differs from `state`, and returns normally exactly when it
\* matches.
C4_VerifiedSetWritesThenReadsOnce ==
    (/\ pc = "idle"
     /\ op.name = "set_digital_output"
     /\ op.verify
     /\ Valid(digital_outputs(model), op.index)) =>
        /\ Len(trace) \in {1, 2}
        /\ trace[1].call = "write_coil"
        /\ trace[1].address = Coil
        /\ trace[1].value = op.state
        /\ (Len(trace) = 1) = trace[1].error
        /\ Len(trace) = 2 =>
            /\ trace[2].call = "read_coils"
            /\ trace[2].address = Coil
            /\ ~trace[2].error =>
                /\ (result.status = "AssertionError") = (trace[2].bits[1] # op.state)
                /\ (result.status = "ok") = (trace[2].bits[1] = op.state)

\* The write of HIGH was not stored and the read-back answered LOW.
C4_Witness ==
    /\ pc = "idle"
    /\ op.name = "set_digital_output"
    /\ op.verify
    /\ op.state
    /\ Valid(digital_outputs(model), op.index)
    /\ Len(trace) = 2
    /\ trace[2].bits = <<FALSE>>
    /\ result.status = "AssertionError"

\* C5 (as claimed): a pulse with duration <= 0 fails with an invalid-argument
\* error (ValueError) and has issued no coil write.
C5_NonPositiveDurationRejectedBeforeAnyWrite ==
    (/\ op.name = "pulse_digital_output"
     /\ Valid(digital_outputs(model), op.index)
     /\ op.duration <= 0) =>
        /\ WriteCoils(trace) = <<>>
        /\ pc = "idle" => result.status = "ValueError"

\* The table the running operation looks its index up in.
Table ==
    IF op.name = "get_digital_input" THEN digital_inputs(model)
    ELSE IF op.name \in {"get_counter", "get_frequency"} THEN counter_registers(model)
    ELSE digital_outputs(model)

IndexedOperations ==
    {"set_digital_output", "get_digital_output", "get_digital_input",
     "pulse_digital_output", "get_counter", "get_frequency"}

\* C6 (as claimed): an operation called with an index outside
\* 0 <= index < len(table) issues no transport request and fails with the
\* out-of-range error (IndexError).
C6_IndexOutsideTableIssuesNoRequest ==
    (op.name \in IndexedOperations /\ ~Valid(Table, op.index)) =>
        /\ trace = <<>>
        /\ pc = "idle" => result.status = "IndexError"

\* C7: get_digital_output(i), called right after a set_digital_output(i, s)
\* that returned against a transport that stored the write, returns s.
C7_GetAfterSetReturnsState ==
    (/\ pc = "idle"
     /\ op.name = "get_digital_output"
     /\ result.status = "ok"
     /\ prev.set
     /\ prev.index = op.index
     /\ Valid(digital_outputs(model), op.index)) =>
        result.value = PyBool(prev.state)

\* get_digital_output(1) has returned right after a set_digital_output(1, s)
\* whose write was stored.
C7_Witness ==
    /\ pc = "idle"
    /\ op.name = "get_digital_output"
    /\ result.status = "ok"
    /\ prev.set
    /\ prev.index = op.index
    /\ op.index = 1
    /\ result.value = PyBool(prev.state)

Connects(t) == SelectSeq(t, LAMBDA e : e.call = "connect")
RegisterReads(t) == SelectSeq(t, LAMBDA e : e.call = "read_input_registers")

\* C8 (as claimed): connect opens the transport once, reads the
\* identification registers if and only if the open succeeded, and when the
\* open did not succeed fails with ConnectionException, connected false and
\* no register read issued.
C8_ConnectIdentifiesOnlyWhenOpened ==
    (op.name = "connect" /\ pc # "connect") =>
        /\ Len(Connects(trace)) = 1
        /\ RegisterReads(trace) # <<>> => trace[1].returned
        /\ pc = "idle" =>
            /\ trace[1].returned => RegisterReads(trace) # <<>>
            /\ ~trace[1].returned =>
                /\ result.status = "ConnectionException"
                /\ ~connected
                /\ RegisterReads(trace) = <<>>

\* C9: a transport call that raises ConnectionException is the last thing the
\* operation does: the exception reaches the caller and no further transport
\* call, hold or retry follows.
C9_ConnectionExceptionEndsOperation ==
    \A j \in 1..Len(trace) :
        trace[j].error =>
            /\ j = Len(trace)
            /\ pc = "idle"
            /\ result.status = "ConnectionException"

\* The read-back of the second step of a pulse raised.
C9_Witness ==
    /\ op.name = "pulse_digital_output"
    /\ pc = "idle"
    /\ Len(trace) = 4
    /\ trace[4].call = "read_coils"
    /\ trace[4].error
    /\ Len(WriteCoils(trace)) = 2

\* The base-256 digits of high * 65536 + low for two 16-bit registers.
Digits32(low, high) ==
    Strip(<<low % 256, low \div 256, high % 256, high \div 256>>)

\* C10: get_counter(i) with a valid index issues one read of 2 registers at
\* counter_registers[i] and returns high * 65536 + low of the (low, high) pair
\* read, a value below 2^32.
C10_CounterIsHighTimes65536PlusLow ==
    (/\ pc = "idle"
     /\ op.name = "get_counter"
     /\ Valid(counter_registers(model), op.index)
     /\ result.status = "ok") =>
        /\ Len(trace) = 1
        /\ trace[1].call = "read_input_registers"
        /\ trace[1].address = counter_registers(model)[op.index + 1]
        /\ trace[1].count = 2
        /\ result.value = PyInt(Digits32(trace[1].registers[1],
                                         trace[1].registers[2]))
        /\ Len(result.value.v) <= 4

\* low = 5, high = 2 gives 131077.
C10_Witness ==
    /\ pc = "idle"
    /\ op.name = "get_counter"
    /\ result.status = "ok"
    /\ trace[1].registers = <<5, 2>>
    /\ result.value = PyInt(Long(131077))


\* A float with one decimal, held as its number of tenths.
PyFloatTenths(n) == [kind |-> "float", tenths |-> n]

\* C11 (as claimed): get_frequency(i) with a valid index issues one read of 1
\* register at counter_registers[i] and, whenever that read answers, returns
\* the register's value divided by 10 (register 123 gives 12.3).
C11_FrequencyIsRegisterOverTen ==
    (/\ pc = "idle"
     /\ op.name = "get_frequency"
     /\ Valid(counter_registers(model), op.index)) =>
        /\ Len(trace) = 1
        /\ trace[1].call = "read_input_registers"
        /\ trace[1].address = counter_registers(model)[op.index + 1]
        /\ trace[1].count = 1
        /\ ~trace[1].error =>
            /\ result.status = "ok"
            /\ result.value = PyFloatTenths(trace[1].registers[1])

\* The text the specification gives for each register pair read:
\* lowercase hexadecimal of low, then of high, nothing for a zero register.
ExpectedName(registers) ==
    CASE registers = <<0, 0>> -> ""
      [] registers = <<5, 2>> -> "52"
      [] registers = <<65535, 65535>> -> "ffffffff"
      [] registers = <<65, 66>> -> "4142"
      [] registers = <<0, 90>> -> "5a"

\* C12: get_module_name issues one read of 2 registers at module_name (210)
\* and returns the lowercase hexadecimal text of the low register followed by
\* that of the high register, a zero register contributing nothing.
C12_ModuleNameIsLowHexThenHighHex ==
    (/\ pc = "idle"
     /\ op.name = "get_module_name"
     /\ result.status = "ok") =>
        /\ Len(trace) = 1
        /\ trace[1].call = "read_input_registers"
        /\ trace[1].address = 210
        /\ trace[1].count = 2
        /\ result.value = PyStr(ExpectedName(trace[1].registers))

\* low = 0x41, high = 0x42 gives "4142".
C12_Witness ==
    /\ pc = "idle"
    /\ op.name = "get_module_name"
    /\ result.status = "ok"
    /\ trace[1].registers = <<65, 66>>
    /\ result.value = PyStr("4142")


\* Where the hold stands in the trace of a pulse: after the two entries of
\* each of the first two steps with verify (write, read-back), after their
\* two writes without.
HoldPosition == IF op.verify THEN 5 ELSE 3

\* C13: a pulse holds only once its first two force steps are complete
\* (read-backs included) and always before the third write; a pulse that
\* returns normally has held exactly once, for `duration`, and nothing but
\* the third step follows the hold.
C13_HoldOnceBetweenSecondAndThirdStep ==
    op.name = "pulse_digital_output" =>
        /\ \A j \in 1..Len(trace) :
               trace[j].call = "sleep" =>
                   /\ j = HoldPosition
                   /\ Len(WriteCoils(SubSeq(trace, 1, j - 1))) = 2
                   /\ trace[j - 1].call = (IF op.verify THEN "read_coils"
                                           ELSE "write_coil")
                   /\ trace[j].duration = op.duration
                   /\ Len(trace) > j => trace[j + 1].call = "write_coil"
        /\ (pc = "idle" /\ result.status = "ok") =>
               /\ Len(Sleeps(trace)) = 1
               /\ Len(trace) = HoldPosition + (IF op.verify THEN 2 ELSE 1)
               /\ Len(WriteCoils(trace)) = 3

\* A verified pulse has returned: write, read, write, read, hold, write, read.
C13_Witness ==
    /\ op.name = "pulse_digital_output"
    /\ op.verify
    /\ pc = "idle"
    /\ result.status = "ok"
    /\ Len(trace) = 7
    /\ trace[5].call = "sleep"

\* C14 (as claimed): a transport failure in any operation clears connected:
\* once an operation has ended with ConnectionException, connected is false.
C14_TransportFailureClearsConnected ==
    (pc = "idle" /\ result.status = "ConnectionException") => ~connected


\* C15: name is empty at construction; a step changes it only when an
\* identification read answers, and then to the text of the registers read,
\* which is also what get_module_name returns; an identification read that
\* raises, and every other step, leaves it unchanged.
C15_NameIsLastSuccessfulIdentification ==
    /\ name = ""
    /\ [][IF pc = "read_module_name" /\ ~trace'[Len(trace')].error
          THEN /\ name' = ExpectedName(trace'[Len(trace')].registers)
               /\ op.name = "get_module_name" => result'.value = PyStr(name')
          ELSE name' = name]_vars

\* An identification read has raised after an earlier one had answered
\* "4142": the cached name is still "4142".
C15_Witness ==
    /\ pc = "idle"
    /\ op.name = "get_module_name"
    /\ result.status = "ConnectionException"
    /\ name = "4142"


\* C16 (as claimed): get_digital_input(i) with a valid index issues exactly
\* one discrete-input read at digital_inputs[i], nothing else, and, when the
\* read answers, returns the input's boolean state.
C16_DigitalInputReturnsBool ==
    (/\ pc = "idle"
     /\ op.name = "get_digital_input"
     /\ Valid(digital_inputs(model), op.index)) =>
        /\ Len(trace) = 1
        /\ trace[1].call = "read_discrete_inputs"
        /\ trace[1].address = digital_inputs(model)[op.index + 1]
        /\ ~trace[1].error =>
            /\ result.status = "ok"
            /\ result.value.kind = "bool"

Addresses(table) == {table[k] : k \in 1..Len(table)}

NoRepeat(table) == Cardinality(Addresses(table)) = Len(table)

PairwiseDisjoint(tables) ==
    \A i, j \in 1..Len(tables) :
        i < j => Addresses(tables[i]) \cap Addresses(tables[j]) = {}

\* The tables of coil and discrete-input addresses.
BitTables(m) == <<digital_outputs(m), digital_inputs(m)>>

\* The tables of input-register addresses.
RegisterTables(m) ==
    <<counter_registers(m), pulse_low_widths(m), pulse_high_widths(m),
      absolute_pulse_count(m), incremental_pulse_count(m)>>

\* C17 (as claimed): the seven address sequences of the model are pairwise
\* disjoint and none repeats an address.
C17_AllTablesDisjoint ==
    /\ PairwiseDisjoint(BitTables(model) \o RegisterTables(model))
    /\ \A k \in 1..7 : NoRepeat((BitTables(model) \o RegisterTables(model))[k])

\* C17 (amended): the two bit tables are disjoint from each other, the five
\* register tables are pairwise disjoint, no table repeats an address, and no
\* step of the driver changes which tables it uses.
C17_TablesDisjointWithinAddressSpace ==
    /\ [](/\ PairwiseDisjoint(BitTables(model))
          /\ PairwiseDisjoint(RegisterTables(model))
          /\ \A k \in 1..7 :
                 NoRepeat((BitTables(model) \o RegisterTables(model))[k]))
    /\ [][model' = model]_vars

\* An ADAM-6052 has carried out an operation; its digital inputs and its
\* counter registers share the numbers 0, 2, 4 and 6.
C17_Witness ==
    /\ model = "ADAM6052"
    /\ pc = "idle"
    /\ op.name = "get_counter"
    /\ result.status = "ok"
    /\ Addresses(digital_inputs(model)) \cap Addresses(counter_registers(model))
           = {0, 2, 4, 6}


ReadOperations ==
    {"get_digital_output", "get_digital_input", "get_counter", "get_frequency",
     "get_module_name"}

\* C18: a step of set_digital_output or pulse_digital_output with a valid
\* index i issues coil writes to digital_outputs[i] only and leaves every
\* other coil as it was; a step of a get operation or of the identification
\* issues no coil write and leaves every coil as it was.
C18_OnlyTheMappedCoilIsWritten ==
    [][/\ (/\ op'.name \in {"set_digital_output", "pulse_digital_output"}
           /\ Valid(digital_outputs(model), op'.index)) =>
              /\ \A a \in CoilAddresses(model) :
                     a # digital_outputs(model)[op'.index + 1] =>
                         coils'[a] = coils[a]
              /\ \A j \in 1..Len(trace') :
                     trace'[j].call = "write_coil" =>
                         trace'[j].address = digital_outputs(model)[op'.index + 1]
       /\ op'.name \in ReadOperations =>
              /\ coils' = coils
              /\ WriteCoils(trace') = <<>>]_vars

\* Output 0 has been set LOW while output 1, set HIGH earlier, is still HIGH.
C18_Witness ==
    /\ pc = "idle"
    /\ op.name = "set_digital_output"
    /\ op.index = 0
    /\ ~op.state
    /\ result.status = "ok"
    /\ faithful
    /\ ~coils[digital_outputs(model)[1]]
    /\ coils[digital_outputs(model)[2]]

ReadBacks(t) == SelectSeq(t, LAMBDA e : e.call = "read_coils")
Failures(t) == SelectSeq(t, LAMBDA e : e.error)

\* C19: without verify, set_digital_output and pulse_digital_output on a valid
\* output issue no coil read and never raise AssertionError; when no transport
\* call raises (and the pulse duration is positive) they return normally after
\* exactly one, respectively three, coil writes, whether or not the device
\* stored them.
C19_UnverifiedWritesWithoutReadBack ==
    (/\ op.name \in {"set_digital_output", "pulse_digital_output"}
     /\ ~op.verify
     /\ Valid(digital_outputs(model), op.index)) =>
        /\ ReadBacks(trace) = <<>>
        /\ result.status # "AssertionError"
        /\ (/\ pc = "idle"
            /\ Failures(trace) = <<>>
            /\ op.name = "pulse_digital_output" => op.duration > 0) =>
               /\ result.status = "ok"
               /\ Len(WriteCoils(trace)) =
                      (IF op.name = "set_digital_output" THEN 1 ELSE 3)

\* An unverified pulse has returned although the device dropped a write.
C19_Witness ==
    /\ pc = "idle"
    /\ op.name = "pulse_digital_output"
    /\ ~op.verify
    /\ Valid(digital_outputs(model), op.index)
    /\ op.duration > 0
    /\ ~faithful
    /\ result.status = "ok"
    /\ Len(WriteCoils(trace)) = 3
    /\ coils[digital_outputs(model)[op.index + 1]]
           # PulseStates(op.polarity)[3]

====
